---------------------------- MODULE Spec2Model ----------------------------
(***************************************************************************)
(* A model of ttx-wasm (src/src/wasm/ttx_wasm.cpp, ttx_wasm.h): the font   *)
(* reader, the table codecs, the XML writer, the XML parser and the        *)
(* TTXProcessor that the C API keeps in one static instance.               *)
(*                                                                         *)
(* Byte buffers are sequences of 0..255.  Source offsets are 0-based; the  *)
(* operator At(data, i) reads the byte the source calls data[i].           *)
(***************************************************************************)
EXTENDS Integers, Sequences, FiniteSets, TLC

(***************************************************************************)
(* Integer widths.  A uint16_t is a number in 0..65535.  A uint32_t is two *)
(* and a uint64_t four 16-bit limbs, most significant first, so that every *)
(* 32- and 64-bit value of the source has its own representation and the   *)
(* arithmetic below wraps exactly where the C++ arithmetic wraps.          *)
(***************************************************************************)
Limb == 65536

At(data, i) == data[i + 1]

\* F(v): a value computed once and then used under one name, as a local
\* variable of the source is.
Bind(v, F(_)) == CHOOSE y \in { F(x) : x \in { v } } : TRUE

\* ttx_wasm.cpp:16  (data[0] << 8) | data[1], as uint16_t
readUint16BE(data, off) == At(data, off) * 256 + At(data, off + 1)

\* ttx_wasm.cpp:12  (data[0]<<24)|(data[1]<<16)|(data[2]<<8)|data[3], as uint32_t
readUint32BE(data, off) ==
    << At(data, off) * 256 + At(data, off + 1),
       At(data, off + 2) * 256 + At(data, off + 3) >>

\* A 32-bit literal of the source, by its high and low 16 bits.
Lit32(hi, lo) == << hi, lo >>

\* A size_t or int that is small (a buffer size, a small constant) as a
\* k-limb value.
RECURSIVE Wide(_, _)
Wide(n, k) == IF k = 0 THEN << >> ELSE Wide(n \div Limb, k - 1) \o << n % Limb >>

\* The number a limb value denotes, when it is below 2^16 (every buffer of
\* the model is shorter than that, so every index into one is).
IsSmall(w) == \A i \in 1..(Len(w) - 1) : w[i] = 0
Small(w) == w[Len(w)]

\* a + b + carry on k limbs, as k + 1 limbs (the first one is the carry out).
RECURSIVE AddCarry(_, _, _)
AddCarry(a, b, c) ==
    IF a = << >> THEN << c >>
    ELSE LET n == Len(a)
             s == a[n] + b[n] + c
         IN  AddCarry(SubSeq(a, 1, n - 1), SubSeq(b, 1, n - 1), s \div Limb)
                 \o << s % Limb >>

\* The exact sum (one limb wider) and the sum the machine computes (wrapped).
AddExact(a, b) == AddCarry(a, b, 0)
AddWrap(a, b) == Tail(AddCarry(a, b, 0))

\* a - b modulo 2^(16k): a + ~b + 1, carry dropped.
SubWrap(a, b) == Tail(AddCarry(a, [i \in 1..Len(b) |-> Limb - 1 - b[i]], 1))

\* a < b for two values of the same number of limbs.
RECURSIVE WideLess(_, _)
WideLess(a, b) ==
    IF a = << >> THEN FALSE
    ELSE IF Head(a) # Head(b) THEN Head(a) < Head(b)
    ELSE WideLess(Tail(a), Tail(b))

\* a > n, for a limb value a and a small number n (a buffer size).
WideAbove(a, n) == WideLess(Wide(n, Len(a)), a)

\* static_cast<int16_t>(uint16_t)
toInt16(u) == IF u >= 32768 THEN u - Limb ELSE u

(***************************************************************************)
(* Helpers to write big-endian values and byte runs (used to build the     *)
(* input buffers, and by the serializers).                                 *)
(***************************************************************************)
BE16(v) == << v \div 256, v % 256 >>
RECURSIVE BE(_)
BE(w) == IF w = << >> THEN << >> ELSE BE16(Head(w)) \o BE(Tail(w))
Zeros(n) == [i \in 1..n |-> 0]
Prefix(s, n) == SubSeq(s, 1, IF n < Len(s) THEN n ELSE Len(s))


(***************************************************************************)
(* Table tags: 4 opaque bytes (std::string(ptr, 4), ttx_wasm.cpp:581).     *)
(***************************************************************************)
TagHead == << 104, 101, 97, 100 >>      \* "head"
TagName == << 110, 97, 109, 101 >>      \* "name"
TagCmap == << 99, 109, 97, 112 >>       \* "cmap"
TagGlyf == << 103, 108, 121, 102 >>     \* "glyf"
TagHigh == << 200, 65, 65, 65 >>        \* a tag whose first byte is above 0x7F

\* std::map<std::string, ...> orders its keys with std::less<std::string>:
\* lexicographic on the bytes, each compared as unsigned char (ttx_wasm.h:26).
\* The same comparison with each byte taken as a signed char: the order the
\* keys would have if the map compared plain chars as numbers.
RECURSIVE StringLessSigned(_, _)
StringLessSigned(a, b) ==
    IF b = << >> THEN FALSE
    ELSE IF a = << >> THEN TRUE
    ELSE IF Head(a) # Head(b)
         THEN (IF Head(a) >= 128 THEN Head(a) - 256 ELSE Head(a))
                < (IF Head(b) >= 128 THEN Head(b) - 256 ELSE Head(b))
    ELSE StringLessSigned(Tail(a), Tail(b))

RECURSIVE StringLess(_, _)
StringLess(a, b) ==
    IF b = << >> THEN FALSE
    ELSE IF a = << >> THEN TRUE
    ELSE IF Head(a) # Head(b) THEN Head(a) < Head(b)
    ELSE StringLess(Tail(a), Tail(b))

\* The keys of a TableMap in iteration order (begin() .. end()).
MapKeys(m) ==
    [i \in 1..Cardinality(DOMAIN m) |->
       CHOOSE k \in DOMAIN m :
         Cardinality({ y \in DOMAIN m : StringLess(y, k) }) = i - 1]

\* tables_.insert({tag, value}), which leaves a key that is there as it is
MapPut_insert(m, tag, value) ==
    [t \in DOMAIN m \cup {tag} |-> IF t \in DOMAIN m THEN m[t] ELSE value]

\* tables_[tag] = value
MapPut(m, tag, value) ==
    [t \in DOMAIN m \cup {tag} |-> IF t = tag THEN value ELSE m[t]]

EmptyMap == [t \in {} |-> 0]

(***************************************************************************)
(* Tables.  A std::shared_ptr<FontTable> is either nullptr (Null) or one   *)
(* of the four table classes, told apart by the field "kind".              *)
(***************************************************************************)
Null == [kind |-> "null"]

\* GenericTable::parse, ttx_wasm.cpp:83
GenericTable_parse(tag, data) ==
    [ok |-> TRUE, table |-> [kind |-> "generic", tag |-> tag, rawData |-> data]]

\* GenericTable::toXML, ttx_wasm.cpp:92: the element is named by the tag and
\* holds the hex dump of the raw bytes (bytesToHex, ttx_wasm.cpp:20: one
\* lowercase pair per byte, so the dump denotes exactly the byte sequence).
GenericTable_toXML(t) ==
    [section |-> "table", element |-> t.tag, codec |-> "generic",
     hexdata |-> t.rawData]

\* HeadTable::parse, ttx_wasm.cpp:109
HeadTable_parse(data) ==
    IF Len(data) < 54 THEN [ok |-> FALSE, table |-> Null]
    ELSE [ok |-> TRUE, table |->
           [kind |-> "head",
            version            |-> readUint32BE(data, 0),
            fontRevision       |-> readUint32BE(data, 4),
            checkSumAdjustment |-> readUint32BE(data, 8),
            magicNumber        |-> readUint32BE(data, 12),
            flags              |-> readUint16BE(data, 16),
            unitsPerEm         |-> readUint16BE(data, 18),
            created            |-> readUint32BE(data, 20) \o readUint32BE(data, 24),
            modified           |-> readUint32BE(data, 28) \o readUint32BE(data, 32),
            xMin               |-> toInt16(readUint16BE(data, 36)),
            yMin               |-> toInt16(readUint16BE(data, 38)),
            xMax               |-> toInt16(readUint16BE(data, 40)),
            yMax               |-> toInt16(readUint16BE(data, 42)),
            macStyle           |-> readUint16BE(data, 44),
            lowestRecPPEM      |-> readUint16BE(data, 46),
            fontDirectionHint  |-> toInt16(readUint16BE(data, 48)),
            indexToLocFormat   |-> toInt16(readUint16BE(data, 50)),
            glyphDataFormat    |-> toInt16(readUint16BE(data, 52))]]

\* HeadTable::serialize, ttx_wasm.cpp:145: ByteArray data(54) is 54 zero
\* bytes; only version and fontRevision are written (lines 150-158).
HeadTable_serialize(t) ==
    BE(t.version) \o BE(t.fontRevision) \o Zeros(54 - 8)

\* The Mac-epoch to Unix-epoch offset 2082844800ULL = 0x7C25B080, as a
\* uint64_t (ttx_wasm.cpp:179).
MacEpochOffset == << 0, 0, \h7C25, \hB080 >>

\* HeadTable::toXML, ttx_wasm.cpp:166.  Each value is the number its decimal
\* (or hex, or fixed-point) text denotes, with the base the stream is in when
\* it is written where the source sets one (std::hex at lines 174 and 176,
\* std::dec at line 177); created and modified are printed as the uint64_t
\* difference created - 2082844800ULL, which wraps modulo 2^64 and is never
\* negative.
HeadTable_toXML(t) ==
    [section |-> "table", element |-> TagHead, codec |-> "head",
     tableVersion       |-> [num |-> t.version, den |-> 65536, places |-> 1],
     fontRevision       |-> [num |-> t.fontRevision, den |-> 65536, places |-> 3],
     checkSumAdjustment |-> [value |-> t.checkSumAdjustment, base |-> 16],
     magicNumber        |-> [value |-> t.magicNumber, base |-> 16],
     flags              |-> [value |-> t.flags, base |-> 10],
     unitsPerEm         |-> [value |-> t.unitsPerEm, base |-> 10],
     created            |-> [value |-> SubWrap(t.created, MacEpochOffset),
                             base |-> 10],
     modified           |-> [value |-> SubWrap(t.modified, MacEpochOffset),
                             base |-> 10],
     xMin |-> t.xMin, yMin |-> t.yMin, xMax |-> t.xMax, yMax |-> t.yMax,
     macStyle           |-> t.macStyle,
     lowestRecPPEM      |-> t.lowestRecPPEM,
     fontDirectionHint  |-> t.fontDirectionHint,
     indexToLocFormat   |-> t.indexToLocFormat,
     glyphDataFormat    |-> t.glyphDataFormat]

(***************************************************************************)
(* Undefined behaviour.  Two places of the source can read outside a       *)
(* buffer (ttx_wasm.cpp:593 and :381, after a 32-bit sum has wrapped).     *)
(* What such a read does is not the program's choice: the build either     *)
(* faults, or reads whatever lies there.  An outcome "ub" is one of these: *)
(* a fault, or stray memory that reads as the 16-bit word ub.word          *)
(* repeated.                                                               *)
(***************************************************************************)
StrayWords == { 4 }
UBOutcomes == { [fault |-> TRUE, word |-> 0] }
                  \cup { [fault |-> FALSE, word |-> w] : w \in StrayWords }
StrayBytes(ub, n) == [i \in 1..n |-> BE16(ub.word)[((i - 1) % 2) + 1]]

(***************************************************************************)
(* NameTable                                                               *)
(***************************************************************************)
\* The loop of NameTable::parse, ttx_wasm.cpp:215-236: record i of count, read
\* at offset; acc holds the records pushed so far.
RECURSIVE NameTable_parseRecords(_, _, _, _, _, _)
NameTable_parseRecords(data, count, stringOffset, i, offset, acc) ==
    IF i >= count THEN [ok |-> TRUE, nameRecords |-> acc]
    ELSE IF offset + 12 > Len(data) THEN [ok |-> FALSE, nameRecords |-> acc]
    ELSE LET length == readUint16BE(data, offset + 8)
             strOffset == readUint16BE(data, offset + 10)
             actualOffset == stringOffset + strOffset
             record ==
               [platformID |-> readUint16BE(data, offset),
                encodingID |-> readUint16BE(data, offset + 2),
                languageID |-> readUint16BE(data, offset + 4),
                nameID     |-> readUint16BE(data, offset + 6),
                string     |-> IF actualOffset + length <= Len(data)
                               THEN SubSeq(data, actualOffset + 1,
                                           actualOffset + length)
                               ELSE << >>]
         IN  NameTable_parseRecords(data, count, stringOffset, i + 1,
                                    offset + 12, Append(acc, record))

\* NameTable::parse as it would be if a record array that runs past the end
\* of the buffer ended the loop without failing (break at line 218): the
\* records read so far are the table.
NameTable_parse_partial(data) ==
    IF Len(data) < 6 THEN [ok |-> FALSE, table |-> Null]
    ELSE Bind(NameTable_parseRecords(data, readUint16BE(data, 2),
                                     readUint16BE(data, 4), 0, 6, << >>),
              LAMBDA r :
                [ok |-> TRUE,
                 table |-> [kind |-> "name", nameRecords |-> r.nameRecords]])

\* NameTable::parse, ttx_wasm.cpp:201
NameTable_parse(data) ==
    IF Len(data) < 6 THEN [ok |-> FALSE, table |-> Null]
    ELSE Bind(NameTable_parseRecords(data, readUint16BE(data, 2),
                                     readUint16BE(data, 4), 0, 6, << >>),
              LAMBDA r :
                IF r.ok
                THEN [ok |-> TRUE,
                      table |-> [kind |-> "name", nameRecords |-> r.nameRecords]]
                ELSE [ok |-> FALSE, table |-> Null])

(***************************************************************************)
(* CmapTable                                                               *)
(***************************************************************************)
NoMapping == [c \in {} |-> 0]

\* The mapping both supported formats build, ttx_wasm.cpp:396-398, 406-410.
First256 == [c \in 0..255 |-> c % 256]

\* CmapTable::parseSubtable, ttx_wasm.cpp:376.  offset is a uint32_t, so
\* offset + 6 and offset + 14 are 32-bit sums that wrap, while the reads go
\* to data.data() + offset itself.  Result: whether the call faulted, whether
\* a byte outside the table was read, and the mapping built.
CmapTable_parseSubtable(data, offset, ub) ==
    LET size == Len(data)
        none == [fault |-> FALSE, oob |-> FALSE, glyphMapping |-> NoMapping]
        inside(n) == ~WideAbove(AddExact(offset, Wide(n, 2)), size)
    IN  IF WideAbove(AddWrap(offset, Wide(6, 2)), size) THEN none
        ELSE IF ~inside(2) /\ ub.fault
        THEN [fault |-> TRUE, oob |-> TRUE, glyphMapping |-> NoMapping]
        ELSE LET format == IF inside(2)
                           THEN readUint16BE(data, Small(offset))
                           ELSE ub.word
             IN  CASE format = 4 ->
                        IF WideAbove(AddWrap(offset, Wide(14, 2)), size)
                        THEN [none EXCEPT !.oob = ~inside(2)]
                        ELSE [fault |-> FALSE, oob |-> ~inside(8),
                              glyphMapping |-> First256]
                   [] format = 12 ->
                        [fault |-> FALSE, oob |-> ~inside(2),
                         glyphMapping |-> First256]
                   [] OTHER -> [none EXCEPT !.oob = ~inside(2)]

\* The loop of CmapTable::parse, ttx_wasm.cpp:310-321.
RECURSIVE CmapTable_parseRecords(_, _, _, _, _)
CmapTable_parseRecords(data, numTables, i, offset, acc) ==
    IF i >= numTables THEN [ok |-> TRUE, encodingRecords |-> acc]
    ELSE IF offset + 8 > Len(data) THEN [ok |-> FALSE, encodingRecords |-> acc]
    ELSE CmapTable_parseRecords(data, numTables, i + 1, offset + 8,
            Append(acc, [platformID |-> readUint16BE(data, offset),
                         encodingID |-> readUint16BE(data, offset + 2),
                         offset     |-> readUint32BE(data, offset + 4)]))

\* CmapTable::parse, ttx_wasm.cpp:297
CmapTable_parse(data, ub) ==
    IF Len(data) < 4 THEN [ok |-> FALSE, fault |-> FALSE, oob |-> FALSE, table |-> Null]
    ELSE Bind(CmapTable_parseRecords(data, readUint16BE(data, 2), 0, 4, << >>),
              LAMBDA r :
                IF ~r.ok
                THEN [ok |-> FALSE, fault |-> FALSE, oob |-> FALSE, table |-> Null]
                ELSE
                Bind(IF r.encodingRecords # << >>
                     THEN CmapTable_parseSubtable(
                              data, r.encodingRecords[1].offset, ub)
                     ELSE [fault |-> FALSE, oob |-> FALSE,
                           glyphMapping |-> NoMapping],
                     LAMBDA sub :
                       [ok |-> ~sub.fault, fault |-> sub.fault, oob |-> sub.oob,
                        table |-> [kind |-> "cmap",
                                   version |-> readUint16BE(data, 0),
                                   encodingRecords |-> r.encodingRecords,
                                   glyphMapping |-> sub.glyphMapping]]))

(***************************************************************************)
(* FontReader                                                              *)
(***************************************************************************)
\* detectFormat as it would be if 00 00 01 00 were a TrueType signature too
\* (the second operand of line 451 being 0x00000100).
FontReader_detectFormat_bothTTF(data) ==
    IF Len(data) < 4 THEN [format |-> "UNKNOWN", reads |-> {}]
    ELSE LET signature == readUint32BE(data, 0)
         IN  [reads |-> 0..3,
              format |->
                IF signature = Lit32(\h0001, \h0000)
                     \/ signature = Lit32(\h0000, \h0100)
                THEN "TTF"
                ELSE IF signature = Lit32(\h4F54, \h544F) THEN "OTF"
                ELSE IF signature = Lit32(\h7474, \h6366) THEN "TTC"
                ELSE IF signature = Lit32(\h774F, \h4646) THEN "WOFF"
                ELSE IF signature = Lit32(\h774F, \h4632) THEN "WOFF2"
                ELSE "UNKNOWN"]

\* detectFormat as it would be without the size check of line 444: the four
\* bytes are read whatever the size, a byte beyond the buffer reading as 0.
FontReader_detectFormat_noSizeCheck(data) ==
    LET signature == readUint32BE(data \o Zeros(4), 0)
    IN  [reads |-> 0..3,
         format |->
           IF signature = Lit32(\h0001, \h0000) THEN "TTF"
           ELSE IF signature = Lit32(\h4F54, \h544F) THEN "OTF"
           ELSE IF signature = Lit32(\h7474, \h6366) THEN "TTC"
           ELSE IF signature = Lit32(\h774F, \h4646) THEN "WOFF"
           ELSE IF signature = Lit32(\h774F, \h4632) THEN "WOFF2"
           ELSE "UNKNOWN"]

\* FontReader::detectFormat, ttx_wasm.cpp:443.  "reads" are the indices of
\* the bytes of data the function reads.
FontReader_detectFormat(data) ==
    IF Len(data) < 4 THEN [format |-> "UNKNOWN", reads |-> {}]
    ELSE LET signature == readUint32BE(data, 0)
         IN  [reads |-> 0..3,
              format |->
                IF signature = Lit32(\h0001, \h0000)          \* 0x00010000
                     \/ signature = Lit32(\h1, \h0000)        \* 0x10000
                THEN "TTF"
                ELSE IF signature = Lit32(\h4F54, \h544F) THEN "OTF"
                ELSE IF signature = Lit32(\h7474, \h6366) THEN "TTC"
                ELSE IF signature = Lit32(\h774F, \h4646) THEN "WOFF"
                ELSE IF signature = Lit32(\h774F, \h4632) THEN "WOFF2"
                ELSE "UNKNOWN"]

\* FontReader::createTable, ttx_wasm.cpp:600: the table, or nullptr when the
\* table's parse fails.
FontReader_createTable(tag, data, ub) ==
    IF tag = TagHead
    THEN [fault |-> FALSE, oob |-> FALSE, table |-> HeadTable_parse(data).table]
    ELSE IF tag = TagName
    THEN [fault |-> FALSE, oob |-> FALSE, table |-> NameTable_parse(data).table]
    ELSE IF tag = TagCmap
    THEN Bind(CmapTable_parse(data, ub),
              LAMBDA r : [fault |-> r.fault, oob |-> r.oob,
                          table |-> IF r.ok THEN r.table ELSE Null])
    ELSE [fault |-> FALSE, oob |-> FALSE, table |-> GenericTable_parse(tag, data).table]

\* The loop of FontReader::parseTableDirectory, ttx_wasm.cpp:574-595, from
\* entry i on, with the table map as it stands.  tableOffset + length is a
\* 32-bit sum (line 589); the copy of line 593 reads [tableOffset,
\* tableOffset + length) of the buffer, which lies outside it when the sum
\* wrapped.
RECURSIVE FontReader_parseEntries(_, _, _, _, _, _, _)
FontReader_parseEntries(data, offset, numTables, i, tables, oob, ub) ==
    IF i >= numTables
    THEN [ok |-> TRUE, fault |-> FALSE, oob |-> oob, tables |-> tables]
    ELSE
    LET entryOffset == offset + i * 16 IN
    IF entryOffset + 16 > Len(data)
    THEN [ok |-> FALSE, fault |-> FALSE, oob |-> oob, tables |-> tables]
    ELSE
    LET tag == SubSeq(data, entryOffset + 1, entryOffset + 4)
        tableOffset == readUint32BE(data, entryOffset + 8)
        length == readUint32BE(data, entryOffset + 12)
        inside == ~WideAbove(AddExact(tableOffset, length), Len(data))
    IN
    IF WideAbove(AddWrap(tableOffset, length), Len(data))
    THEN FontReader_parseEntries(data, offset, numTables, i + 1, tables, oob, ub)
    ELSE IF ~inside /\ (ub.fault \/ ~IsSmall(length))
    THEN [ok |-> FALSE, fault |-> TRUE, oob |-> TRUE, tables |-> tables]
    ELSE
    LET tableData == IF inside
                     THEN SubSeq(data, Small(tableOffset) + 1,
                                 Small(tableOffset) + Small(length))
                     ELSE StrayBytes(ub, Small(length))
    IN
    Bind(FontReader_createTable(tag, tableData, ub),
         LAMBDA made :
           IF made.fault
           THEN [ok |-> FALSE, fault |-> TRUE, oob |-> TRUE, tables |-> tables]
           ELSE FontReader_parseEntries(data, offset, numTables, i + 1,
                                        MapPut(tables, tag, made.table),
                                        oob \/ ~inside \/ made.oob, ub))

\* FontReader::parseTableDirectory, ttx_wasm.cpp:568
FontReader_parseTableDirectory(data, offset, tables, ub) ==
    IF offset < 12
    THEN [ok |-> FALSE, fault |-> FALSE, oob |-> FALSE, tables |-> tables]
    ELSE FontReader_parseEntries(data, offset, readUint16BE(data, 4), 0,
                                 tables, FALSE, ub)

\* FontReader::parseTTF, ttx_wasm.cpp:529 (parseOTF is the same function)
FontReader_parseTTF(data, tables, ub) ==
    IF Len(data) < 12
    THEN [ok |-> FALSE, fault |-> FALSE, oob |-> FALSE, tables |-> tables]
    ELSE FontReader_parseTableDirectory(data, 4 + 2 + 6, tables, ub)

\* FontReader::loadFont, ttx_wasm.cpp:421.  reader is the FontReader's state
\* before the call, [format_, tables_]; the result holds its state after.
\* Nothing in the function clears tables_.
FontReader_loadFont(reader, data, ub) ==
    IF data = << >>
    THEN [ok |-> FALSE, fault |-> FALSE, oob |-> FALSE, reader |-> reader]
    ELSE
    LET format == FontReader_detectFormat(data).format
    IN  Bind(IF format \in {"TTF", "OTF"}
             THEN FontReader_parseTTF(data, reader.tables_, ub)
             ELSE \* parseWOFF, parseWOFF2, parseTTC and default: return false
                  [ok |-> FALSE, fault |-> FALSE, oob |-> FALSE,
                   tables |-> reader.tables_],
             LAMBDA r :
               [ok |-> r.ok, fault |-> r.fault, oob |-> r.oob,
                reader |-> [format_ |-> format, tables_ |-> r.tables]])

\* A FontReader as constructed, ttx_wasm.h:135, 145-146
FontReader_new == [format_ |-> "UNKNOWN", tables_ |-> EmptyMap]

\* FontReader::getTableList, ttx_wasm.cpp:516
FontReader_getTableList(reader) == MapKeys(reader.tables_)

\* FontReader::getTable, ttx_wasm.cpp:524
FontReader_getTable(reader, tag) ==
    IF tag \in DOMAIN reader.tables_ THEN reader.tables_[tag] ELSE Null

\* The FontMetadata and FontInfo a default constructor leaves, ttx_wasm.h:61-82
EmptyMetadata ==
    [family |-> << >>, style |-> << >>, version |-> << >>,
     unitsPerEm |-> 0, created |-> Wide(0, 4), modified |-> Wide(0, 4)]
EmptyInfo ==
    [format |-> "UNKNOWN", tables |-> << >>, metadata |-> EmptyMetadata,
     fontCount |-> 1]

\* The loop of ttx_wasm.cpp:484-505 for one nameID: the string of the first
\* record in an English language (0x0409 or 0) with that nameID whose string
\* is not empty.
RECURSIVE FirstName(_, _)
FirstName(records, nameID) ==
    IF records = << >> THEN << >>
    ELSE LET record == Head(records)
         IN  IF record.languageID \in { \h0409, 0 } /\ record.nameID = nameID
                  /\ record.string # << >>
             THEN record.string
             ELSE FirstName(Tail(records), nameID)

\* FontReader::getFontInfo, ttx_wasm.cpp:470
FontReader_getFontInfo(reader) ==
    LET headTable == FontReader_getTable(reader, TagHead)
        nameTable == FontReader_getTable(reader, TagName)
        hasHead == headTable.kind = "head"
        hasName == nameTable.kind = "name"
    IN  [format |-> reader.format_,
         fontCount |-> 1,
         metadata |->
           [unitsPerEm |-> IF hasHead THEN headTable.unitsPerEm ELSE 0,
            created    |-> IF hasHead THEN headTable.created ELSE Wide(0, 4),
            modified   |-> IF hasHead THEN headTable.modified ELSE Wide(0, 4),
            family  |-> IF hasName THEN FirstName(nameTable.nameRecords, 1) ELSE << >>,
            style   |-> IF hasName THEN FirstName(nameTable.nameRecords, 2) ELSE << >>,
            version |-> IF hasName THEN FirstName(nameTable.nameRecords, 5) ELSE << >>],
         tables |-> MapKeys(reader.tables_)]

(***************************************************************************)
(* Text.  The XML a table writes is modelled by its content: one record    *)
(* per element, each number being the number its digits denote, each       *)
(* string the sequence of its characters (character codes).                *)
(***************************************************************************)
Npos == 0 - 1       \* std::string::npos

\* std::string::find(c, pos), 0-based
Find(str, c, pos) ==
    IF pos = Npos \/ pos >= Len(str) THEN Npos
    ELSE LET hits == { i \in pos..(Len(str) - 1) : At(str, i) = c }
         IN  IF hits = {} THEN Npos
             ELSE CHOOSE i \in hits : \A j \in hits : i <= j

\* std::string::replace(pos, 1, with)
Replace1(str, pos, with) ==
    SubSeq(str, 1, pos) \o with \o SubSeq(str, pos + 2, Len(str))

Amp  == 38                                  \* '&'
Lt   == 60                                  \* '<'
AmpEntity == << 38, 97, 109, 112, 59 >>     \* "&amp;"
LtEntity  == << 38, 108, 116, 59 >>         \* "&lt;"

\* One while loop of ttx_wasm.cpp:273-280: from pos on, replace each c by
\* entity and step over the entity.  Result: the string and the value pos
\* has when the loop ends (npos).
RECURSIVE EscapeLoop(_, _, _, _)
EscapeLoop(str, c, entity, pos) ==
    LET at == Find(str, c, pos)
    IN  IF at = Npos THEN [str |-> str, pos |-> Npos]
        ELSE EscapeLoop(Replace1(str, at, entity), c, entity, at + Len(entity))

\* ttx_wasm.cpp:270-280: pos is declared once; the second loop starts from
\* the value the first loop left in it.
EscapeXML(string) ==
    LET first == EscapeLoop(string, Amp, AmpEntity, 0)
        second == EscapeLoop(first.str, Lt, LtEntity, first.pos)
    IN  second.str

\* NameTable::toXML, ttx_wasm.cpp:259.  std::hex is set while the first
\* record's langID is written and never reset, so from the second record on
\* nameID, platformID and platEncID are written in base 16 too.
NameTable_toXML(t) ==
    [section |-> "table", element |-> TagName, codec |-> "name",
     namerecords |->
       [i \in 1..Len(t.nameRecords) |->
          LET record == t.nameRecords[i]
              base == IF i = 1 THEN 10 ELSE 16
          IN  [nameID     |-> [value |-> record.nameID, base |-> base],
               platformID |-> [value |-> record.platformID, base |-> base],
               platEncID  |-> [value |-> record.encodingID, base |-> base],
               langID     |-> [value |-> record.languageID, base |-> 16],
               text       |-> EscapeXML(record.string)]]]

\* CmapTable::toXML, ttx_wasm.cpp:345: one cmap_format_4 element per encoding
\* record, each listing the one mapping of the table (keys up to 0xFFFF).
CmapTable_toXML(t) ==
    [section |-> "table", element |-> TagCmap, codec |-> "cmap",
     tableVersion |-> t.version,
     subtables |->
       [i \in 1..Len(t.encodingRecords) |->
          [platformID |-> t.encodingRecords[i].platformID,
           platEncID  |-> t.encodingRecords[i].encodingID,
           map |-> [c \in { k \in DOMAIN t.glyphMapping : k <= 65535 }
                      |-> t.glyphMapping[c]]]]]

\* FontTable::toXML, the virtual call of ttx_wasm.cpp:645
FontTable_toXML(t) ==
    CASE t.kind = "head" -> HeadTable_toXML(t)
      [] t.kind = "name" -> NameTable_toXML(t)
      [] t.kind = "cmap" -> CmapTable_toXML(t)
      [] t.kind = "generic" -> GenericTable_toXML(t)

(***************************************************************************)
(* TTXWriter                                                               *)
(***************************************************************************)
\* TTXOptions, ttx_wasm.h:44 (the fields the code reads)
DefaultOptions == [onlyTables |-> << >>, skipTables |-> << >>, flavor |-> ""]

InSeq(x, seq) == \E i \in 1..Len(seq) : seq[i] = x

\* TTXWriter::shouldIncludeTable, ttx_wasm.cpp:652: the skip list is looked
\* at first, then the only list.
TTXWriter_shouldIncludeTable(tag, options) ==
    IF options.skipTables # << >> /\ InSeq(tag, options.skipTables) THEN FALSE
    ELSE IF options.onlyTables # << >> THEN InSeq(tag, options.onlyTables)
    ELSE TRUE

CommonGlyphs ==
    << "space", "exclam", "quotedbl", "numbersign", "dollar", "percent",
       "ampersand", "quotesingle", "parenleft", "parenright", "asterisk",
       "plus", "comma", "hyphen", "period", "slash" >>
UpperGlyphs ==
    << "A", "B", "C", "D", "E", "F", "G", "H", "I", "J", "K", "L", "M",
       "N", "O", "P", "Q", "R", "S", "T", "U", "V", "W", "X", "Y", "Z" >>
LowerGlyphs ==
    << "a", "b", "c", "d", "e", "f", "g", "h", "i", "j", "k", "l", "m",
       "n", "o", "p", "q", "r", "s", "t", "u", "v", "w", "x", "y", "z" >>

\* TTXWriter::generateGlyphOrder, ttx_wasm.cpp:38: glyph i is named glyphs[i+1]
TTXWriter_generateGlyphOrder(reader) ==
    [section |-> "GlyphOrder",
     glyphs |-> IF InSeq(TagGlyf, FontReader_getTableList(reader))
                THEN << ".notdef" >> \o CommonGlyphs \o UpperGlyphs \o LowerGlyphs
                ELSE << ".notdef" >>]

\* The loop of TTXWriter::convertToXML, ttx_wasm.cpp:630-637
RECURSIVE TTXWriter_tableElements(_, _, _)
TTXWriter_tableElements(reader, tags, options) ==
    IF tags = << >> THEN << >>
    ELSE LET tag == Head(tags)
             table == FontReader_getTable(reader, tag)
             rest == TTXWriter_tableElements(reader, Tail(tags), options)
         IN  IF TTXWriter_shouldIncludeTable(tag, options) /\ table.kind # "null"
             THEN << FontTable_toXML(table) >> \o rest
             ELSE rest

\* TTXWriter::convertToXML, ttx_wasm.cpp:623
TTXWriter_convertToXML(reader, options) ==
    << [section |-> "prolog"] >>
      \o << TTXWriter_generateGlyphOrder(reader) >>
      \o TTXWriter_tableElements(reader, FontReader_getTableList(reader), options)
      \o << [section |-> "footer"] >>

(***************************************************************************)
(* TTXParser                                                               *)
(***************************************************************************)
\* TTXParser::parseXML, ttx_wasm.cpp:676: the text is not read
TTXParser_parseXML(parser, xml) ==
    [ok |-> TRUE, parser |-> [tables_ |-> EmptyMap]]

\* TTXParser::generateFont, ttx_wasm.cpp:683: result.resize(12) leaves bytes
\* 6..11 zero; options is not read
TTXParser_generateFont(parser, options) ==
    LET sfntVersion == Lit32(\h0001, \h0000)
        numTables == Cardinality(DOMAIN parser.tables_) % Limb
    IN  BE(sfntVersion) \o BE16(numTables) \o Zeros(6)

(***************************************************************************)
(* TTXProcessor.  Its members reader_ and parser_ are mutable and live as  *)
(* long as the processor (ttx_wasm.h:223-225); the C API holds one static  *)
(* processor (ttx_wasm.cpp:761).  Each operation returns the processor's   *)
(* state after the call and the value returned.                            *)
(***************************************************************************)
\* TTXProcessor::detectFormat, ttx_wasm.cpp:707
TTXProcessor_detectFormat(data) == FontReader_detectFormat(data)

\* ttx_detect_format, ttx_wasm.cpp:771 (the data pointer is not null).  The
\* caller's bytes are copied into a ByteArray (line 776), which detectFormat
\* is then called with: "copied" are the indices the copy reads, "reads"
\* those detectFormat reads.
ttx_detect_format(data) ==
    IF Len(data) = 0 THEN [format |-> "UNKNOWN", reads |-> {}, copied |-> {}]
    ELSE Bind(TTXProcessor_detectFormat(data),
              LAMBDA r : [format |-> r.format, reads |-> r.reads,
                          copied |-> 0..(Len(data) - 1)])

\* TTXProcessor::getFontInfo, ttx_wasm.cpp:711
TTXProcessor_getFontInfo(reader, data, ub) ==
    Bind(FontReader_loadFont(reader, data, ub),
         LAMBDA load :
           [fault |-> load.fault, oob |-> load.oob, reader |-> load.reader,
            info |-> IF load.ok THEN FontReader_getFontInfo(load.reader)
                     ELSE EmptyInfo])

\* listTables as it would be if the result of loadFont were not looked at
\* (line 750): the reader's table list is returned after a failed load too.
TTXProcessor_listTables_unchecked(reader, data, ub) ==
    Bind(FontReader_loadFont(reader, data, ub),
         LAMBDA load :
           [fault |-> load.fault, oob |-> load.oob, reader |-> load.reader,
            tables |-> IF load.fault THEN << >>
                       ELSE FontReader_getTableList(load.reader)])

\* TTXProcessor::listTables, ttx_wasm.cpp:749
TTXProcessor_listTables(reader, data, ub) ==
    Bind(FontReader_loadFont(reader, data, ub),
         LAMBDA load :
           [fault |-> load.fault, oob |-> load.oob, reader |-> load.reader,
            tables |-> IF load.ok THEN FontReader_getTableList(load.reader)
                       ELSE << >>])

\* TTXProcessor::dumpToTTX, ttx_wasm.cpp:718
TTXProcessor_dumpToTTX(reader, fontData, options, ub) ==
    Bind(FontReader_loadFont(reader, fontData, ub),
         LAMBDA load :
           IF ~load.ok
           THEN [fault |-> load.fault, oob |-> load.oob, reader |-> load.reader,
                 success |-> FALSE, warnings |-> << "Failed to load font data" >>,
                 data |-> << >>, format |-> ""]
           ELSE [fault |-> FALSE, oob |-> load.oob, reader |-> load.reader,
                 success |-> TRUE, warnings |-> << >>,
                 data |-> TTXWriter_convertToXML(load.reader, options),
                 format |-> "TTX"])

\* TTXProcessor::compileFromTTX, ttx_wasm.cpp:734
TTXProcessor_compileFromTTX(parser, ttxData, options) ==
    LET parsed == TTXParser_parseXML(parser, ttxData)
    IN  IF ~parsed.ok
        THEN [parser |-> parsed.parser, success |-> FALSE,
              warnings |-> << "Failed to parse TTX XML" >>,
              data |-> << >>, format |-> ""]
        ELSE [parser |-> parsed.parser, success |-> TRUE, warnings |-> << >>,
              data |-> TTXParser_generateFont(parsed.parser, options),
              format |-> IF options.flavor = "" THEN "TTF" ELSE options.flavor]

(***************************************************************************)
(* Input buffers.  A font is written from its signature and its directory  *)
(* entries; an entry is placed "in" the buffer (its bytes follow the       *)
(* directory, in entry order), one byte "past" its end (the offset is that *)
(* of its bytes, the length reaches one byte beyond the buffer), or given  *)
(* "raw" by an offset and a length that no bytes back.                     *)
(***************************************************************************)
In(tag, data) ==
    [tag |-> tag, data |-> data, place |-> "in",
     offset |-> Wide(0, 2), length |-> Wide(0, 2)]
Past(tag, data) ==
    [tag |-> tag, data |-> data, place |-> "past",
     offset |-> Wide(0, 2), length |-> Wide(0, 2)]
Raw(tag, offset, length) ==
    [tag |-> tag, data |-> << >>, place |-> "raw",
     offset |-> offset, length |-> length]

RECURSIVE DataLen(_)
DataLen(entries) ==
    IF entries = << >> THEN 0 ELSE Len(Head(entries).data) + DataLen(Tail(entries))

RECURSIVE DataOf(_)
DataOf(entries) ==
    IF entries = << >> THEN << >> ELSE Head(entries).data \o DataOf(Tail(entries))

\* The 16 bytes of directory entry k of a font of the given size.
EntryBytes(entries, k, size) ==
    LET e == entries[k]
        at == 12 + 16 * Len(entries) + DataLen(SubSeq(entries, 1, k - 1))
        offset == IF e.place = "raw" THEN e.offset ELSE Wide(at, 2)
        length == CASE e.place = "raw" -> e.length
                    [] e.place = "in" -> Wide(Len(e.data), 2)
                    [] e.place = "past" -> Wide(size - at + 1, 2)
    IN  e.tag \o BE(Wide(0, 2)) \o BE(offset) \o BE(length)

RECURSIVE DirectoryBytes(_, _, _)
DirectoryBytes(entries, k, size) ==
    IF k > Len(entries) THEN << >>
    ELSE EntryBytes(entries, k, size) \o DirectoryBytes(entries, k + 1, size)

\* A font whose header declares numTables entries and that holds entries.
MkFontN(signature, numTables, entries) ==
    LET size == 12 + 16 * Len(entries) + DataLen(entries)
    IN  signature \o BE16(numTables) \o Zeros(6)
          \o DirectoryBytes(entries, 1, size) \o DataOf(entries)

MkFont(signature, entries) == MkFontN(signature, Len(entries), entries)

SigTTF   == << 0, 1, 0, 0 >>
SigTTF2  == << 0, 0, 1, 0 >>
SigOTF   == << 79, 84, 84, 79 >>        \* 'OTTO'
SigTTC   == << 116, 116, 99, 102 >>     \* 'ttcf'
SigWOFF  == << 119, 79, 70, 70 >>       \* 'wOFF'
SigWOFF2 == << 119, 79, 70, 50 >>       \* 'wOF2'
SigJunk  == << 74, 85, 78, 75 >>        \* 'JUNK'

\* A 54-byte head table: unitsPerEm and the four limbs of created are given,
\* the other fields are those of an ordinary font.
MkHead(unitsPerEm, created) ==
    BE(Lit32(1, 0)) \o BE(Lit32(1, 0)) \o BE(Lit32(0, 0))
      \o BE(Lit32(\h5F0F, \h3CF5)) \o BE16(3) \o BE16(unitsPerEm)
      \o BE(created) \o BE(created)
      \o BE16(0) \o BE16(65336) \o BE16(1000) \o BE16(800)
      \o BE16(0) \o BE16(8) \o BE16(2) \o BE16(0) \o BE16(0)

Created2019 == << 0, 0, \hD93D, \hAC00 >>    \* 3,644,697,600
HeadData == MkHead(2048, Created2019)
ShortHeadData == Prefix(HeadData, 10)

\* A name table of one record (Windows, en-US, family name) with its string.
MkName(string) ==
    BE16(0) \o BE16(1) \o BE16(18)
      \o BE16(3) \o BE16(1) \o BE16(\h0409) \o BE16(1)
      \o BE16(Len(string)) \o BE16(0) \o string

NameData  == MkName(<< 65, 32, 38, 32, 66, 32, 60, 32, 67 >>)   \* "A & B < C"
NameData2 == MkName(<< 90 >>)                                   \* "Z"

\* A cmap table with no encoding record.
CmapData == BE16(0) \o BE16(0)

\* The three stored tables are in bounds; the directory is not sorted by tag.
FontMinimal == MkFont(SigTTF, << In(TagHead, HeadData) >>)
FontThree ==
    MkFont(SigOTF, << In(TagName, NameData), In(TagHead, HeadData),
                      In(TagCmap, CmapData) >>)
\* The head entry's length reaches one byte past the end of the buffer.
FontPast ==
    MkFont(SigTTF, << In(TagHigh, << 222, 173 >>), In(TagName, NameData),
                      Past(TagHead, HeadData) >>)
\* offset 0xFFFFFFFF + length 2 is 2^32 + 1, which is 1 in 32 bits.
FontWrap ==
    MkFont(SigTTF, << Raw(TagHigh, Lit32(\hFFFF, \hFFFF), Wide(2, 2)),
                      In(TagName, NameData) >>)
\* The head entry is in bounds and shorter than a head table.
FontShortHead ==
    MkFont(SigTTF, << In(TagHead, ShortHeadData), In(TagName, NameData) >>)
FontTwoNames ==
    MkFont(SigTTF, << In(TagName, NameData), In(TagName, NameData2) >>)
\* The header declares two entries; the buffer ends after the first, which
\* names the 12 header bytes themselves as the cmap table.
FontCutDirectory ==
    MkFontN(SigTTF, 2, << Raw(TagCmap, Wide(0, 2), Wide(12, 2)) >>)

Fonts ==
    { FontMinimal, FontThree, FontPast, FontWrap, FontShortHead,
      FontTwoNames, FontCutDirectory }

\* Buffers that cannot be loaded: prefixes of a font shorter than its
\* 12-byte header, and headers with the other signatures.
Prefixes == { Prefix(FontMinimal, n) : n \in { 0, 3, 11 } }
Foreign ==
    { MkFont(sig, << >>) :
        sig \in { SigTTF2, SigTTC, SigWOFF, SigWOFF2, SigJunk } }

Inputs == Fonts \cup Prefixes \cup Foreign

\* The buffers detectFormat is called with: every length below 4 among them.
DetectInputs ==
    { Prefix(FontMinimal, n) : n \in 0..4 }
        \cup { FontThree, MkFont(SigTTF2, << >>), MkFont(SigWOFF, << >>) }

\* The option values the calls are made with.
Flavors == { "", "TTF", "OTF" }
DumpOptions ==
    { [onlyTables |-> o, skipTables |-> k, flavor |-> ""] :
        o \in { << >>, << TagHead >>, << TagName, TagHead >> },
        k \in { << >>, << TagHead >> } }
CompileOptions ==
    { [onlyTables |-> << >>, skipTables |-> << >>, flavor |-> f] : f \in Flavors }

\* A text that no dump produced: an empty ttFont element.
EmptyFontText == << [section |-> "prolog"], [section |-> "footer"] >>

\* The number of calls made to the processor in one run of the model.
MaxCalls == 3

(***************************************************************************)
(* The state machine: one processor, called again and again.               *)
(***************************************************************************)
VARIABLES
    reader_,    \* TTXProcessor::reader_  : [format_, tables_]
    parser_,    \* TTXProcessor::parser_  : [tables_]
    call,       \* the last call: [op, data, options, source]
    result,     \* what the last call returned
    ncalls,     \* the number of calls made
    pureIn,     \* the input of a function applied on its own
    pureOut     \* and its output

vars == << reader_, parser_, call, result, ncalls, pureIn, pureOut >>

NoCall == [op |-> "none", data |-> << >>, options |-> DefaultOptions,
           source |-> << >>]

Init ==
    /\ reader_ = FontReader_new
    /\ parser_ = [tables_ |-> EmptyMap]
    /\ call = NoCall
    /\ result = [fault |-> FALSE, oob |-> FALSE]
    /\ ncalls = 0
    /\ pureIn = [fn |-> "none"]
    /\ pureOut = [done |-> FALSE]

\* A call can be made: a call that faulted ended the process.
Ready == ~result.fault /\ ncalls < MaxCalls

DetectFormat(data) ==
    /\ Ready
    /\ ncalls' = ncalls + 1
    /\ call' = [NoCall EXCEPT !.op = "detectFormat", !.data = data]
    /\ \E r \in { ttx_detect_format(data) } :
          result' = [fault |-> FALSE, oob |-> FALSE, format |-> r.format,
                     reads |-> r.reads, copied |-> r.copied]
    /\ UNCHANGED << reader_, parser_, pureIn, pureOut >>

ListTables(data, ub) ==
    /\ Ready
    /\ ncalls' = ncalls + 1
    /\ call' = [NoCall EXCEPT !.op = "listTables", !.data = data]
    /\ \E r \in { TTXProcessor_listTables(reader_, data, ub) } :
           /\ reader_' = IF r.fault THEN reader_ ELSE r.reader
           /\ result' = [fault |-> r.fault, oob |-> r.oob, tables |-> r.tables]
    /\ UNCHANGED << parser_, pureIn, pureOut >>

GetFontInfo(data, ub) ==
    /\ Ready
    /\ ncalls' = ncalls + 1
    /\ call' = [NoCall EXCEPT !.op = "getFontInfo", !.data = data]
    /\ \E r \in { TTXProcessor_getFontInfo(reader_, data, ub) } :
           /\ reader_' = IF r.fault THEN reader_ ELSE r.reader
           /\ result' = [fault |-> r.fault, oob |-> r.oob, info |-> r.info]
    /\ UNCHANGED << parser_, pureIn, pureOut >>

DumpToTTX(data, options, ub) ==
    /\ Ready
    /\ ncalls' = ncalls + 1
    /\ call' = [NoCall EXCEPT !.op = "dumpToTTX", !.data = data,
                              !.options = options]
    /\ \E r \in { TTXProcessor_dumpToTTX(reader_, data, options, ub) } :
           /\ reader_' = IF r.fault THEN reader_ ELSE r.reader
           /\ result' = [fault |-> r.fault, oob |-> r.oob,
                         success |-> r.success, warnings |-> r.warnings,
                         data |-> r.data, format |-> r.format]
    /\ UNCHANGED << parser_, pureIn, pureOut >>

\* compileFromTTX on ttxData; source is the font whose dump ttxData is, if any.
Compile(ttxData, source, options) ==
    /\ ncalls' = ncalls + 1
    /\ call' = [op |-> "compileFromTTX", data |-> ttxData,
                options |-> options, source |-> source]
    /\ \E r \in { TTXProcessor_compileFromTTX(parser_, ttxData, options) } :
           /\ parser_' = r.parser
           /\ result' = [fault |-> FALSE, oob |-> FALSE,
                         success |-> r.success, warnings |-> r.warnings,
                         data |-> r.data, format |-> r.format]
    /\ UNCHANGED << reader_, pureIn, pureOut >>

\* The round trip: the text of the dump just made is compiled.
CompileDump(options) ==
    /\ Ready
    /\ call.op = "dumpToTTX"
    /\ result.success
    /\ Compile(result.data, call.data, options)

CompileText(options) ==
    /\ Ready
    /\ Compile(EmptyFontText, << >>, options)

Next ==
    \/ \E data \in DetectInputs : DetectFormat(data)
    \/ \E data \in Inputs : \E ub \in UBOutcomes :
          ListTables(data, ub)
    \/ \E data \in Inputs : \E ub \in UBOutcomes :
          GetFontInfo(data, ub)
    \/ \E data \in Inputs, options \in DumpOptions :
          \E ub \in UBOutcomes : DumpToTTX(data, options, ub)
    \/ \E options \in CompileOptions : CompileDump(options)
    \/ \E options \in CompileOptions : CompileText(options)

Spec == Init /\ [][Next]_vars

(***************************************************************************)
(* The functions on their own: Init draws an input, one action applies the *)
(* function to it.                                                         *)
(***************************************************************************)
\* The bytes the six signatures are written with.
SigBytes == { 0, 1, 79, 84, 116, 99, 102, 119, 70, 50 }

\* The number of bytes that follow the first four in a buffer.
MaxTail == 1

\* Every buffer of up to 4 signature bytes, and every one of 4 followed by
\* up to MaxTail more bytes.
DetectBuffers ==
    UNION { [1..n -> SigBytes] : n \in 0..4 }
      \cup { s \o [i \in 1..k |-> 255] : s \in [1..4 -> SigBytes], k \in 1..MaxTail }

\* 54-byte buffers: an ordinary head table, and every buffer that is zero
\* but for one byte.
HeadBuffers ==
    { HeadData, Zeros(54) }
      \cup { [i \in 1..54 |-> IF i = p THEN v ELSE 0] : p \in 1..54, v \in { 1, 255 } }

\* The strings a name record is given: every string of up to MaxString
\* characters among 'A', '&' and '<', and the string "A & B < C".
MaxString == 3
NameChars == { 65, Amp, Lt }
NameStrings ==
    UNION { [1..n -> NameChars] : n \in 0..MaxString }
        \cup { << 65, 32, 38, 32, 66, 32, 60, 32, 67 >> }

\* The head tables whose text is looked at: created (and modified) below,
\* at and above 2,082,844,800, up to the largest 64-bit value.
UnitsValues == { 16, 1000, 2048 }
CreatedValues ==
    { Created2019, Wide(0, 4), Wide(1, 4),
      << 0, 0, \h7C25, \hB07F >>, MacEpochOffset, << 0, 0, \h7C25, \hB081 >>,
      << 0, 1, 0, 0 >>, << \hFFFF, \hFFFF, \hFFFF, \hFFFF >> }
HeadTexts == { MkHead(u, c) : u \in UnitsValues, c \in CreatedValues }

\* The directory entries of the fonts that are loaded on their own: tables
\* a codec accepts, tables a codec rejects (a head table of 10 bytes; name
\* tables of 4 bytes, and of 6 and 17 bytes that declare one record; cmap
\* tables of 2 bytes, and of 4 and 11 bytes that declare one record), two
\* tables of a tag without a codec, and entries whose offset and length are
\* any of a few 32-bit values.
HeadData2 == MkHead(1000, MacEpochOffset)
NameCut == BE16(0) \o BE16(1) \o BE16(18)
CmapCut == BE16(0) \o BE16(1)
StoredEntries ==
    { In(TagHead, HeadData), In(TagHead, HeadData2), In(TagHead, ShortHeadData),
      In(TagName, NameData2), In(TagName, Prefix(NameData2, 4)),
      In(TagName, NameCut), In(TagName, NameCut \o Zeros(11)),
      In(TagCmap, CmapData), In(TagCmap, BE16(0)),
      In(TagCmap, CmapCut), In(TagCmap, CmapCut \o Zeros(7)),
      In(TagHigh, << 222, 173 >>), In(TagHigh, << 1 >>) }
EntryOffsets ==
    { Wide(0, 2), Wide(2, 2), Lit32(\h8000, 0), Lit32(\hFFFF, \hFFFE),
      Lit32(\hFFFF, \hFFFF) }
EntryLengths ==
    { Wide(0, 2), Wide(2, 2), Wide(12, 2), Lit32(\h8000, 0),
      Lit32(\hFFFF, \hFFFF) }
RawEntries ==
    { Raw(TagGlyf, o, l) : o \in EntryOffsets, l \in EntryLengths }
        \cup { Past(TagGlyf, << 1 >>) }
LoadEntries == StoredEntries \cup RawEntries
LoadFonts ==
    { MkFont(SigTTF, << a >>) : a \in LoadEntries }
        \cup { MkFont(SigTTF, << a, b >>) : a \in StoredEntries, b \in LoadEntries }
        \cup { MkFont(SigOTF, << a, b >>) : a \in RawEntries, b \in StoredEntries }

\* The name tables that are decoded on their own.  A table stores up to
\* MaxRecords records, record k having nameID k, and declares as many or one
\* more; its string storage, the two bytes "AB", starts at stringOffset,
\* which is where the storage is or 0xFFFF; each record's length and offset
\* are among a few values.  The last bytes of a table may be cut off.
MaxRecords == 2
NameStorage == << 65, 66 >>
RecordChoices ==
    { [length |-> l, strOffset |-> o] : l \in { 0, 1, 2 }, o \in { 0, 1, 65535 } }
RECURSIVE NameRecordBytes(_, _)
NameRecordBytes(recs, k) ==
    IF k > Len(recs) THEN << >>
    ELSE BE16(3) \o BE16(1) \o BE16(\h0409) \o BE16(k)
           \o BE16(recs[k].length) \o BE16(recs[k].strOffset)
           \o NameRecordBytes(recs, k + 1)
MkNameTable(count, stringOffset, recs) ==
    BE16(0) \o BE16(count) \o BE16(stringOffset)
      \o NameRecordBytes(recs, 1) \o NameStorage
NameBuffers ==
    { Prefix(MkNameTable(Len(recs) + more,
                         IF far THEN 65535 ELSE 6 + 12 * Len(recs), recs),
             6 + 12 * Len(recs) + 2 - cut) :
        recs \in UNION { [1..n -> RecordChoices] : n \in 0..MaxRecords },
        more \in { 0, 1 }, far \in BOOLEAN, cut \in { 0, 1, 3 } }

\* The cmap tables that are decoded on their own: one encoding record with
\* its 32-bit offset, then, at byte 12, one subtable: of format 4 with its
\* segment arrays, of format 4 cut after 8 bytes, of format 12, or of a
\* format the code does not know.
SegmentLists ==
    { << >>,
      << [startCode |-> 48, endCode |-> 48] >>,
      << [startCode |-> 0, endCode |-> 255] >>,
      << [startCode |-> 65, endCode |-> 66] >>,
      << [startCode |-> 65, endCode |-> 66],
         [startCode |-> 65535, endCode |-> 65535] >> }
RECURSIVE SegmentWords(_, _)
SegmentWords(segs, field) ==
    IF segs = << >> THEN << >>
    ELSE BE16(IF field = "endCode" THEN Head(segs).endCode
              ELSE IF field = "startCode" THEN Head(segs).startCode
              ELSE IF field = "idDelta" THEN 1
              ELSE 0)
           \o SegmentWords(Tail(segs), field)
MkFormat4(segs) ==
    BE16(4) \o BE16(16 + 8 * Len(segs)) \o BE16(0) \o BE16(2 * Len(segs))
      \o BE16(0) \o BE16(0) \o BE16(0)
      \o SegmentWords(segs, "endCode") \o BE16(0)
      \o SegmentWords(segs, "startCode") \o SegmentWords(segs, "idDelta")
      \o SegmentWords(segs, "idRangeOffset")
Subtables ==
    { MkFormat4(segs) : segs \in SegmentLists }
        \cup { Prefix(MkFormat4(<< >>), 8), BE16(12) \o Zeros(14),
               BE16(0) \o Zeros(4) }
SubtableOffsets ==
    { Wide(0, 2), Wide(12, 2), Wide(14, 2), Wide(40, 2), Lit32(1, 0),
      Lit32(\h8000, 0), Lit32(\hFFFF, \hFFF9), Lit32(\hFFFF, \hFFFA),
      Lit32(\hFFFF, \hFFFC), Lit32(\hFFFF, \hFFFF) }
MkCmap(offset, subtable) ==
    BE16(0) \o BE16(1) \o BE16(3) \o BE16(1) \o BE(offset) \o subtable
CmapBuffers ==
    { MkCmap(o, sub) : o \in SubtableOffsets, sub \in Subtables }

PureInputs ==
    { [fn |-> "detectFormat", data |-> d] : d \in DetectBuffers }
      \cup { [fn |-> "head", data |-> d] : d \in HeadBuffers }
      \cup { [fn |-> "nameText", data |-> MkName(s), string |-> s] :
                s \in NameStrings }
      \cup { [fn |-> "headText", data |-> d] : d \in HeadTexts }
      \cup { [fn |-> "load", data |-> d] : d \in LoadFonts }
      \cup { [fn |-> "name", data |-> d] : d \in NameBuffers }
      \cup { [fn |-> "cmap", data |-> d] : d \in CmapBuffers }

PureInit ==
    /\ reader_ = FontReader_new
    /\ parser_ = [tables_ |-> EmptyMap]
    /\ call = NoCall
    /\ result = [fault |-> FALSE, oob |-> FALSE]
    /\ ncalls = 0
    /\ pureIn \in PureInputs
    /\ pureOut = [done |-> FALSE]

\* FontReader::detectFormat on the input.
ApplyDetectFormat ==
    /\ pureIn.fn = "detectFormat"
    /\ ~pureOut.done
    /\ \E r \in { FontReader_detectFormat(pureIn.data) } :
          pureOut' = [done |-> TRUE, format |-> r.format, reads |-> r.reads]
    /\ UNCHANGED << reader_, parser_, call, result, ncalls, pureIn >>

\* HeadTable::parse on the input, then HeadTable::serialize on the table.
ApplyHeadCodec ==
    /\ pureIn.fn = "head"
    /\ ~pureOut.done
    /\ \E parsed \in { HeadTable_parse(pureIn.data) } :
          pureOut' = [done |-> TRUE, ok |-> parsed.ok, table |-> parsed.table,
                      bytes |-> IF parsed.ok
                                THEN HeadTable_serialize(parsed.table)
                                ELSE << >>]
    /\ UNCHANGED << reader_, parser_, call, result, ncalls, pureIn >>

\* NameTable::parse on the input, then NameTable::toXML on the table.
ApplyNameText ==
    /\ pureIn.fn = "nameText"
    /\ ~pureOut.done
    /\ \E parsed \in { NameTable_parse(pureIn.data) } :
          pureOut' = [done |-> TRUE, ok |-> parsed.ok,
                      text |-> IF parsed.ok
                               THEN NameTable_toXML(parsed.table)
                               ELSE << >>]
    /\ UNCHANGED << reader_, parser_, call, result, ncalls, pureIn >>

\* HeadTable::parse on the input, then HeadTable::toXML on the table.
ApplyHeadText ==
    /\ pureIn.fn = "headText"
    /\ ~pureOut.done
    /\ \E parsed \in { HeadTable_parse(pureIn.data) } :
          pureOut' = [done |-> TRUE, ok |-> parsed.ok,
                      text |-> IF parsed.ok
                               THEN HeadTable_toXML(parsed.table)
                               ELSE << >>]
    /\ UNCHANGED << reader_, parser_, call, result, ncalls, pureIn >>

\* TTXProcessor::listTables, getFontInfo and dumpToTTX on the input, each by
\* a processor that has served no call before.
ApplyLoadFont ==
    /\ pureIn.fn = "load"
    /\ ~pureOut.done
    /\ \E ub \in UBOutcomes :
         \E l \in { TTXProcessor_listTables(FontReader_new, pureIn.data, ub) } :
         \E g \in { TTXProcessor_getFontInfo(FontReader_new, pureIn.data, ub) } :
         \E d \in { TTXProcessor_dumpToTTX(FontReader_new, pureIn.data,
                                            DefaultOptions, ub) } :
           pureOut' = [done |-> TRUE, fault |-> l.fault, oob |-> l.oob,
                       tables_ |-> l.reader.tables_, list |-> l.tables,
                       infoTables |-> g.info.tables,
                       success |-> d.success, text |-> d.data]
    /\ UNCHANGED << reader_, parser_, call, result, ncalls, pureIn >>

\* NameTable::parse on the input.
ApplyNameParse ==
    /\ pureIn.fn = "name"
    /\ ~pureOut.done
    /\ \E parsed \in { NameTable_parse(pureIn.data) } :
          pureOut' = [done |-> TRUE, ok |-> parsed.ok, table |-> parsed.table]
    /\ UNCHANGED << reader_, parser_, call, result, ncalls, pureIn >>

\* CmapTable::parse on the input.
ApplyCmapParse ==
    /\ pureIn.fn = "cmap"
    /\ ~pureOut.done
    /\ \E ub \in UBOutcomes :
         \E parsed \in { CmapTable_parse(pureIn.data, ub) } :
           pureOut' = [done |-> TRUE, ok |-> parsed.ok, fault |-> parsed.fault,
                       oob |-> parsed.oob, table |-> parsed.table]
    /\ UNCHANGED << reader_, parser_, call, result, ncalls, pureIn >>

PureNext ==
    \/ ApplyDetectFormat
    \/ ApplyHeadCodec
    \/ ApplyNameText
    \/ ApplyHeadText
    \/ ApplyLoadFont
    \/ ApplyNameParse
    \/ ApplyCmapParse

PureSpec == PureInit /\ [][PureNext]_vars

(***************************************************************************)
(* The properties.  What they need to say about a buffer or a text is      *)
(* defined here from the bytes, not with the operators of the model.       *)
(***************************************************************************)
Range(seq) == { seq[i] : i \in 1..Len(seq) }

LoadOps == { "listTables", "getFontInfo", "dumpToTTX" }

\* The tags of the table elements of a text, in the order of the text.
ElementTags(text) ==
    LET tables == SelectSeq(text, LAMBDA e : e.section = "table")
    IN  [i \in 1..Len(tables) |-> tables[i].element]

\* The directory of a buffer, read byte by byte: the number of entries the
\* header declares, entry i (from 1), and whether the buffer is a TrueType
\* or OpenType font that holds its whole directory.
DeclaredEntries(data) == data[5] * 256 + data[6]
EntryTag(data, i) == SubSeq(data, 16 * i - 3, 16 * i)
EntryOffset(data, i) == SubSeq(data, 16 * i + 5, 16 * i + 8)
EntryLength(data, i) == SubSeq(data, 16 * i + 9, 16 * i + 12)
HoldsDirectory(data) ==
    /\ Len(data) >= 12
    /\ SubSeq(data, 1, 4) \in { SigTTF, SigOTF }
    /\ Len(data) >= 12 + 16 * DeclaredEntries(data)

\* offset + length <= the buffer's length, as unbounded integers: a value
\* with a non-zero high half is above every buffer length of the model.
EntryInside(data, i) ==
    LET o == EntryOffset(data, i)
        l == EntryLength(data, i)
    IN  /\ o[1] = 0 /\ o[2] = 0 /\ l[1] = 0 /\ l[2] = 0
        /\ (o[3] * 256 + o[4]) + (l[3] * 256 + l[4]) <= Len(data)

\* What the last call returned, and what the same call returns on a
\* processor that has served no call before (one value per outcome of a
\* read outside the buffer).
Answer ==
    CASE call.op = "listTables" -> [fault |-> result.fault, value |-> result.tables]
      [] call.op = "getFontInfo" -> [fault |-> result.fault, value |-> result.info]
      [] call.op = "dumpToTTX" ->
           [fault |-> result.fault,
            value |-> << result.success, result.warnings, result.data >>]

FreshAnswers ==
    CASE call.op = "listTables" ->
           { [fault |-> r.fault, value |-> r.tables] :
               r \in { TTXProcessor_listTables(FontReader_new, call.data, ub) :
                         ub \in UBOutcomes } }
      [] call.op = "getFontInfo" ->
           { [fault |-> r.fault, value |-> r.info] :
               r \in { TTXProcessor_getFontInfo(FontReader_new, call.data, ub) :
                         ub \in UBOutcomes } }
      [] call.op = "dumpToTTX" ->
           { [fault |-> r.fault, value |-> << r.success, r.warnings, r.data >>] :
               r \in { TTXProcessor_dumpToTTX(FontReader_new, call.data,
                                              call.options, ub) :
                         ub \in UBOutcomes } }

\* C1: every listTables, getFontInfo and decodeToText call returns what the
\* same call returns on a processor that has served no call before: the
\* result depends on the call's own buffer and options only, so no table of
\* an earlier buffer shows in it.
C1_CallsIndependentOfHistory ==
    call.op \in LoadOps => Answer \in FreshAnswers

\* C2: when listTables is given a font that holds its whole directory and
\* has an entry whose offset + length exceeds the buffer length, the load
\* succeeds, every entry that lies within the buffer has its tag in the
\* list, and the tag of an entry that does not (and that no entry within
\* the buffer shares) is not in the list.
C2_OutOfBoundsEntryExcluded ==
    (/\ call.op = "listTables"
     /\ HoldsDirectory(call.data)
     /\ \E i \in 1..DeclaredEntries(call.data) : ~EntryInside(call.data, i))
    => /\ ~result.fault
       /\ \A i \in 1..DeclaredEntries(call.data) :
            IF EntryInside(call.data, i)
            THEN EntryTag(call.data, i) \in Range(result.tables)
            ELSE \/ \E j \in 1..DeclaredEntries(call.data) :
                       /\ EntryInside(call.data, j)
                       /\ EntryTag(call.data, j) = EntryTag(call.data, i)
                 \/ EntryTag(call.data, i) \notin Range(result.tables)

\* The tags a call lists: those of the table elements of a text that
\* decodeToText returned, or the list listTables returned.
Listed ==
    IF call.op = "dumpToTTX" THEN ElementTags(result.data) ELSE result.tables
Lists ==
    \/ call.op = "dumpToTTX" /\ result.success
    \/ call.op = "listTables" /\ ~result.fault

\* The place of the first entry of the directory that has the tag.
DirectoryPlace(data, tag) ==
    CHOOSE i \in 1..DeclaredEntries(data) :
      /\ EntryTag(data, i) = tag
      /\ \A j \in 1..(i - 1) : EntryTag(data, j) # tag
InDirectory(data, tag) ==
    \E i \in 1..DeclaredEntries(data) : EntryTag(data, i) = tag

\* Tag a is before tag b when the bytes are compared as numbers 0..255, the
\* first byte that differs deciding.
TagBefore(a, b) ==
    \E k \in 1..4 : a[k] < b[k] /\ \A m \in 1..(k - 1) : a[m] = b[m]

\* C3, as the specification states it: the tables a call lists are in
\* directory order, that is, of two listed tags that the given font's
\* directory holds, the one whose entry comes first is listed first.
C3_DirectoryOrder ==
    (Lists /\ HoldsDirectory(call.data))
    => \A i, j \in 1..Len(Listed) :
         (/\ i < j
          /\ InDirectory(call.data, Listed[i])
          /\ InDirectory(call.data, Listed[j]))
         => DirectoryPlace(call.data, Listed[i])
              < DirectoryPlace(call.data, Listed[j])

\* C3, as the code has it: the tables a call lists (the table elements of
\* the text of decodeToText, the list of listTables) are in ascending order
\* of their tags, compared byte by byte as unsigned numbers, whatever the
\* order of the directory.
C3_TagOrder ==
    Lists => \A i, j \in 1..Len(Listed) : i < j => TagBefore(Listed[i], Listed[j])

\* C3's case: a font whose directory holds a tag with a first byte above
\* 0x7F before "name" is decoded, and the text lists "name" first.
C3_Witness ==
    /\ call.op = "dumpToTTX"
    /\ call.data = FontPast
    /\ result.success
    /\ ElementTags(result.data) = << TagName, TagHigh >>

\* The tags of the tables the reader holds after the call (a tag of the map
\* whose pointer is null has no table).
Present == { t \in DOMAIN reader_.tables_ : reader_.tables_[t].kind # "null" }

\* C4: the table elements of a text decodeToText returned are those of the
\* tags that the font has and that onlyTables names, whatever skipTables
\* holds, when onlyTables is not empty; else those that the font has and
\* skipTables does not name.
C4_SelectionRule ==
    (call.op = "dumpToTTX" /\ result.success)
    => Range(ElementTags(result.data)) =
         IF call.options.onlyTables # << >>
         THEN Present \cap Range(call.options.onlyTables)
         ELSE Present \ Range(call.options.skipTables)

\* The format a signature table assigns to four bytes: "TTF" to 00 01 00 00
\* and to the signatures of alsoTTF, and the format of each other signature.
TableFormat(first4, alsoTTF) ==
    CASE first4 = SigTTF \/ first4 \in alsoTTF -> "TTF"
      [] first4 = SigOTF   /\ first4 \notin alsoTTF -> "OTF"
      [] first4 = SigTTC   /\ first4 \notin alsoTTF -> "TTC"
      [] first4 = SigWOFF  /\ first4 \notin alsoTTF -> "WOFF"
      [] first4 = SigWOFF2 /\ first4 \notin alsoTTF -> "WOFF2"
      [] OTHER -> "UNKNOWN"

Detected ==
    pureIn.fn = "detectFormat" /\ pureOut.done /\ Len(pureIn.data) >= 4

\* C5, as the specification states it: detectFormat gives a buffer of at
\* least 4 bytes the format of its first 4 bytes, which is TTF for
\* 00 01 00 00 and for 00 00 01 00, OTF for 'OTTO', TTC for 'ttcf', WOFF for
\* 'wOFF', WOFF2 for 'wOF2' and Unknown for every other prefix.
C5_SignatureTable ==
    Detected
    => pureOut.format = TableFormat(SubSeq(pureIn.data, 1, 4), { SigTTF2 })

\* C5, as the code has it: the same table, but with 00 01 00 00 as the only
\* TTF signature; 00 00 01 00 is Unknown like every prefix the table does
\* not list.
C5_SignatureTableOneTTF ==
    Detected => pureOut.format = TableFormat(SubSeq(pureIn.data, 1, 4), { })

\* C5's case: detectFormat has been applied to a buffer of more than 4 bytes
\* that starts with 00 00 01 00, and has answered Unknown.
C5_Witness ==
    /\ Detected
    /\ Len(pureIn.data) > 4
    /\ SubSeq(pureIn.data, 1, 4) = SigTTF2
    /\ pureOut.format = "UNKNOWN"

\* C6: a detectFormat call on a buffer of fewer than 4 bytes answers Unknown,
\* reads no byte of the buffer it is given, and leaves the reader (the
\* loaded font) and the parser of the processor as they were.
C6_ShortBufferUnknown ==
    [][(call'.op = "detectFormat" /\ ncalls' = ncalls + 1 /\ Len(call'.data) < 4)
       => /\ result'.format = "UNKNOWN"
          /\ result'.reads = {}
          /\ ~result'.fault
          /\ reader_' = reader_
          /\ parser_' = parser_]_vars

\* C6's case: detectFormat has answered Unknown for a buffer of 3 bytes
\* while the processor holds the tables of a font loaded by an earlier call.
C6_Witness ==
    /\ call.op = "detectFormat"
    /\ Len(call.data) = 3
    /\ result.format = "UNKNOWN"
    /\ DOMAIN reader_.tables_ # {}

\* A buffer that cannot be loaded: shorter than the 12-byte header, or with
\* first bytes that are neither the TrueType nor the OpenType signature.
Unloadable(data) ==
    \/ Len(data) < 12
    \/ SubSeq(data, 1, 4) \notin { SigTTF, SigOTF }

\* C7: a call given a buffer that cannot be loaded does not fault, and
\* decodeToText returns success = false, at least one warning and no text,
\* listTables the empty list, getFontInfo the info of no font (format
\* Unknown, no tables, empty metadata), whatever calls came before.
C7_UnloadableRejected ==
    (call.op \in LoadOps /\ Unloadable(call.data))
    => /\ ~result.fault
       /\ call.op = "dumpToTTX"
            => /\ ~result.success
               /\ Len(result.warnings) >= 1
               /\ result.data = << >>
       /\ call.op = "listTables" => result.tables = << >>
       /\ call.op = "getFontInfo"
            => /\ result.info.format = "UNKNOWN"
               /\ result.info.tables = << >>
               /\ result.info.metadata.family = << >>
               /\ result.info.metadata.style = << >>
               /\ result.info.metadata.version = << >>
               /\ result.info.metadata.unitsPerEm = 0

\* C7's case: listTables has returned the empty list for a WOFF buffer while
\* the processor holds the tables of a font loaded by an earlier call.
C7_Witness ==
    /\ call.op = "listTables"
    /\ call.data = MkFont(SigWOFF, << >>)
    /\ result.tables = << >>
    /\ DOMAIN reader_.tables_ # {}

\* C8: when the text decodeToText returned for the minimal font (a 12-byte
\* header and one 54-byte head table), a text of one table element, head, is
\* encoded with default options, the font returned declares one table and
\* loads to one table, head, with the fields of the original head table.
C8_FontRoundTrip ==
    (/\ call.op = "compileFromTTX"
     /\ call.source = FontMinimal
     /\ ElementTags(call.data) = << TagHead >>
     /\ call.options = DefaultOptions)
    => /\ result.success
       /\ Len(result.data) >= 12
       /\ result.data[5] * 256 + result.data[6] = 1
       /\ \E load \in { FontReader_loadFont(FontReader_new, result.data,
                                            [fault |-> TRUE, word |-> 0]) } :
            /\ load.ok
            /\ DOMAIN load.reader.tables_ = { TagHead }
            /\ load.reader.tables_[TagHead] = HeadTable_parse(HeadData).table

\* The signature a flavor selects.
FlavorSignature(flavor) ==
    CASE flavor = "" -> SigTTF
      [] flavor = "TTF" -> SigTTF
      [] flavor = "OTF" -> SigOTF

\* C9: the first 4 bytes of the font encodeFromText returns are the
\* signature of the flavor given in the options, 00 01 00 00 when none is.
C9_FlavorSignature ==
    (call.op = "compileFromTTX" /\ result.success)
    => /\ Len(result.data) >= 4
       /\ SubSeq(result.data, 1, 4) = FlavorSignature(call.options.flavor)

\* C10: for a 54-byte input, HeadTable decodes it and the encoding of the
\* decoded fields is the input, byte for byte.
C10_HeadRoundTrip ==
    (pureIn.fn = "head" /\ pureOut.done)
    => /\ pureOut.ok
       /\ pureOut.bytes = pureIn.data


(***************************************************************************)
(* The name codec's text.                                                  *)
(***************************************************************************)
\* A string with every '&' written "&amp;" and every '<' written "&lt;".
RECURSIVE Escaped(_)
Escaped(str) ==
    IF str = << >> THEN << >>
    ELSE (CASE Head(str) = 38 -> << 38, 97, 109, 112, 59 >>
            [] Head(str) = 60 -> << 38, 108, 116, 59 >>
            [] OTHER -> << Head(str) >>) \o Escaped(Tail(str))

\* C11: the text of a name record is its string with every '&' written
\* "&amp;" and every '<' written "&lt;", whatever the string and wherever
\* the characters stand in it, so that the text holds no '<' at all.
C11_EscapesAmpAndLt ==
    (pureIn.fn = "nameText" /\ pureOut.done) =>
        /\ pureOut.ok
        /\ Len(pureOut.text.namerecords) = 1
        /\ pureOut.text.namerecords[1].text = Escaped(pureIn.string)
        /\ 60 \notin Range(pureOut.text.namerecords[1].text)

(***************************************************************************)
(* The head codec's text.                                                  *)
(***************************************************************************)
\* The 16 bits at byte 18 and the 64 bits at bytes 20 and 28 of a head table.
UnitsField(data) == data[19] * 256 + data[20]
TimeField(data, at) ==
    << data[at + 1] * 256 + data[at + 2], data[at + 3] * 256 + data[at + 4],
       data[at + 5] * 256 + data[at + 6], data[at + 7] * 256 + data[at + 8] >>

\* The decimal number written is the field less 2,082,844,800: as integers
\* without bound, the number written plus 2,082,844,800 is the field (a text
\* that denotes a negative number is not a number written by this model's
\* unsigned values, and no unsigned value satisfies the sum then).
UnixTimeOf(written, field) ==
    /\ written.base = 10
    /\ AddExact(written.value, << 0, 0, 31781, 45184 >>) = << 0 >> \o field

\* C12: the head text gives unitsPerEm in plain decimal, and created and
\* modified as the 64-bit value of the table less 2,082,844,800, whatever the
\* value, those below 2,082,844,800 included; unitsPerEm 2048 and created
\* 3,644,697,600 are written 2048 and 1561852800.
C12_UnixTimestamps ==
    (pureIn.fn = "headText" /\ pureOut.done) =>
        /\ pureOut.ok
        /\ pureOut.text.unitsPerEm =
              [value |-> UnitsField(pureIn.data), base |-> 10]
        /\ UnixTimeOf(pureOut.text.created, TimeField(pureIn.data, 20))
        /\ UnixTimeOf(pureOut.text.modified, TimeField(pureIn.data, 28))
        /\ (UnitsField(pureIn.data) = 2048
              /\ TimeField(pureIn.data, 20) = << 0, 0, 55613, 44032 >>)
             => /\ pureOut.text.unitsPerEm.value = 2048
                /\ pureOut.text.created.value = << 0, 0, 23831, 64384 >>

(***************************************************************************)
(* Loading a font: what a table that its codec rejects leaves behind.      *)
(***************************************************************************)
\* The bytes of entry i of a font, when the entry lies within the buffer.
EntryData(data, i) ==
    LET o == EntryOffset(data, i)
        l == EntryLength(data, i)
    IN  SubSeq(data, (o[3] * 256 + o[4]) + 1,
               (o[3] * 256 + o[4]) + (l[3] * 256 + l[4]))

\* The codec of the tag rejects the bytes: a head table shorter than 54
\* bytes; a name table shorter than 6 bytes or than its 6-byte header and
\* the 12-byte records it declares; a cmap table shorter than 4 bytes or
\* than its 4-byte header and the 8-byte records it declares.
CodecRejects(tag, bytes) ==
    CASE tag = << 104, 101, 97, 100 >> -> Len(bytes) < 54
      [] tag = << 110, 97, 109, 101 >> ->
           \/ Len(bytes) < 6
           \/ 6 + 12 * (bytes[3] * 256 + bytes[4]) > Len(bytes)
      [] tag = << 99, 109, 97, 112 >> ->
           \/ Len(bytes) < 4
           \/ 4 + 8 * (bytes[3] * 256 + bytes[4]) > Len(bytes)
      [] OTHER -> FALSE

AllInside(data) ==
    /\ HoldsDirectory(data)
    /\ \A i \in 1..DeclaredEntries(data) : EntryInside(data, i)

\* C13: when every entry of a font lies within the buffer and the codec of
\* one rejects its bytes, the load succeeds, the tag of every entry whose
\* codec accepts its bytes is listed, and the tag of the rejected entry (no
\* other entry having it) is absent from the list of listTables, from the
\* tags of getFontInfo and from the table elements of the text.
C13_RejectedTableAbsent ==
    (pureIn.fn = "load" /\ pureOut.done /\ AllInside(pureIn.data)) =>
      \A i \in 1..DeclaredEntries(pureIn.data) :
        LET tag == EntryTag(pureIn.data, i)
        IN  IF CodecRejects(tag, EntryData(pureIn.data, i))
            THEN (\A j \in 1..DeclaredEntries(pureIn.data) :
                     j # i => EntryTag(pureIn.data, j) # tag)
                 => /\ ~pureOut.fault
                    /\ pureOut.success
                    /\ tag \notin Range(pureOut.list)
                    /\ tag \notin Range(pureOut.infoTables)
                    /\ tag \notin Range(ElementTags(pureOut.text))
            ELSE /\ tag \in Range(pureOut.list)
                 /\ tag \in Range(pureOut.infoTables)

(***************************************************************************)
(* The name codec's decode.                                                *)
(***************************************************************************)
\* The 16 bits at byte at (from 0) of a buffer.
Word(data, at) == data[at + 1] * 256 + data[at + 2]

\* The string of the record at byte at of a name table: the bytes of
\* [stringOffset + offset, stringOffset + offset + length) when the buffer
\* holds them all, none otherwise.
RecordString(data, at) ==
    LET from == Word(data, 4) + Word(data, at + 10)
        upto == from + Word(data, at + 8)
    IN  IF upto <= Len(data)
        THEN [i \in 1..(upto - from) |-> data[from + i]]
        ELSE << >>

\* C14: for a name table of at least 6 bytes that declares n records: when
\* the buffer holds the n 12-byte records that follow the 6-byte header,
\* the decode succeeds with n records, in the order of the buffer, each
\* with its four ids and its string; when it does not, the decode fails.
C14_NameDecode ==
    (pureIn.fn = "name" /\ pureOut.done /\ Len(pureIn.data) >= 6) =>
      LET n == Word(pureIn.data, 2)
      IN  IF 6 + 12 * n <= Len(pureIn.data)
          THEN /\ pureOut.ok
               /\ Len(pureOut.table.nameRecords) = n
               /\ \A k \in 1..n :
                    pureOut.table.nameRecords[k] =
                      [platformID |-> Word(pureIn.data, 12 * k - 6),
                       encodingID |-> Word(pureIn.data, 12 * k - 4),
                       languageID |-> Word(pureIn.data, 12 * k - 2),
                       nameID     |-> Word(pureIn.data, 12 * k),
                       string     |-> RecordString(pureIn.data, 12 * k - 6)]
          ELSE /\ ~pureOut.ok
               /\ pureOut.table.kind = "null"

\* A table of two records is decoded, the string of one being bytes of the
\* buffer and the string of the other, whose range leaves the buffer, empty.
C14_Witness ==
    /\ pureIn.fn = "name" /\ pureOut.done /\ pureOut.ok
    /\ Len(pureOut.table.nameRecords) = 2
    /\ pureOut.table.nameRecords[1].string = << 65, 66 >>
    /\ pureOut.table.nameRecords[2].string = << >>
    /\ Word(pureIn.data, 26) > 0

(***************************************************************************)
(* Loading a font: the directory's offsets and lengths.                    *)
(***************************************************************************)
\* C15: whatever the 32-bit offset and length of a directory entry, those
\* whose sum exceeds 2^32 - 1 included, the entry is loaded only if offset +
\* length, as integers without bound, is at most the buffer's length: the
\* load reads no byte outside the buffer and does not fault, and the tag of
\* an entry that is not within the buffer (no entry within it having the
\* tag) is not among the tables held.
C15_DirectoryBounds ==
    (pureIn.fn = "load" /\ pureOut.done /\ HoldsDirectory(pureIn.data)) =>
        /\ ~pureOut.fault
        /\ ~pureOut.oob
        /\ \A i \in 1..DeclaredEntries(pureIn.data) :
             \/ EntryInside(pureIn.data, i)
             \/ \E j \in 1..DeclaredEntries(pureIn.data) :
                   /\ EntryInside(pureIn.data, j)
                   /\ EntryTag(pureIn.data, j) = EntryTag(pureIn.data, i)
             \/ EntryTag(pureIn.data, i) \notin DOMAIN pureOut.tables_

(***************************************************************************)
(* Loading a font: two entries of one tag.                                 *)
(***************************************************************************)
NoRepeat(seq) == \A i, j \in 1..Len(seq) : seq[i] = seq[j] => i = j

\* Entries i and j, the later, lie within the buffer, have the same tag, and
\* j is the last entry of that tag; the codec accepts the bytes of j.
LaterOfTwo(data, i, j) ==
    /\ i < j
    /\ EntryTag(data, i) = EntryTag(data, j)
    /\ EntryInside(data, i) /\ EntryInside(data, j)
    /\ \A k \in (j + 1)..DeclaredEntries(data) : EntryTag(data, k) # EntryTag(data, j)
    /\ ~CodecRejects(EntryTag(data, j), EntryData(data, j))

\* C16: a font loaded holds one table per tag: no tag is listed twice by
\* listTables, by getFontInfo or in the text, and when two entries within
\* the buffer have the same tag, the tag is listed and the table held for
\* it is the one decoded from the bytes of the later entry.
C16_OneTablePerTag ==
    (pureIn.fn = "load" /\ pureOut.done /\ ~pureOut.fault
       /\ HoldsDirectory(pureIn.data)) =>
        /\ NoRepeat(pureOut.list)
        /\ NoRepeat(pureOut.infoTables)
        /\ NoRepeat(ElementTags(pureOut.text))
        /\ \A i, j \in 1..DeclaredEntries(pureIn.data) :
             LaterOfTwo(pureIn.data, i, j) =>
               LET tag == EntryTag(pureIn.data, j)
               IN  /\ tag \in Range(pureOut.list)
                   /\ tag \in DOMAIN pureOut.tables_
                   /\ \E ub \in UBOutcomes :
                         pureOut.tables_[tag] =
                           FontReader_createTable(
                               tag, EntryData(pureIn.data, j), ub).table

\* A font with two entries of one tag, whose bytes differ and are both
\* accepted by the tag's codec, has been loaded.
C16_Witness ==
    /\ pureIn.fn = "load" /\ pureOut.done /\ ~pureOut.fault
    /\ HoldsDirectory(pureIn.data)
    /\ DeclaredEntries(pureIn.data) = 2
    /\ LaterOfTwo(pureIn.data, 1, 2)
    /\ ~CodecRejects(EntryTag(pureIn.data, 1), EntryData(pureIn.data, 1))
    /\ EntryData(pureIn.data, 1) # EntryData(pureIn.data, 2)
    /\ EntryTag(pureIn.data, 1) = << 104, 101, 97, 100 >>
    /\ pureOut.list = << << 104, 101, 97, 100 >> >>
    /\ pureOut.tables_[<< 104, 101, 97, 100 >>].unitsPerEm
         = Word(EntryData(pureIn.data, 2), 18)
    /\ pureOut.tables_[<< 104, 101, 97, 100 >>].unitsPerEm
         # Word(EntryData(pureIn.data, 1), 18)

(***************************************************************************)
(* The cmap codec's decode.                                                *)
(***************************************************************************)
\* The offset of the first encoding record of a cmap table, when it is
\* below 2^16 (FarOffset when it is not).
FarOffset(data) == Word(data, 8) # 0
NearOffset(data) == Word(data, 10)

\* The table holds, at the offset of its first encoding record, a whole
\* format-4 subtable: the 16 bytes around the arrays and four arrays of
\* segCount words.
HoldsFormat4(data) ==
    /\ ~FarOffset(data)
    /\ NearOffset(data) + 16 <= Len(data)
    /\ Word(data, NearOffset(data)) = 4
    /\ NearOffset(data) + 16 + 8 * (Word(data, NearOffset(data) + 6) \div 2)
          <= Len(data)

\* The code points of the segments of that subtable: endCode[k] is word k
\* after the 14-byte header, startCode[k] word k after the endCode array
\* and the reserved word.
SegmentCodes(data) ==
    LET at == NearOffset(data)
        segCount == Word(data, at + 6) \div 2
    IN  UNION { Word(data, at + 16 + 2 * segCount + 2 * k)
                  .. Word(data, at + 14 + 2 * k) : k \in 0..(segCount - 1) }

\* C17: the mapping decoded from a format-4 subtable is the one its segment
\* arrays give: its keys are the code points that lie in a segment
\* [startCode, endCode], so a subtable without segments gives the empty
\* mapping, and subtables of different segments give different mappings.
C17_Format4Segments ==
    (pureIn.fn = "cmap" /\ pureOut.done /\ HoldsFormat4(pureIn.data)) =>
        /\ pureOut.ok
        /\ DOMAIN pureOut.table.glyphMapping = SegmentCodes(pureIn.data)

\* C18: whatever the 32-bit offset of the first encoding record, those
\* within 6 of 2^32 included, the decode reads no byte outside the table
\* and does not fault; a subtable whose first 6 bytes the table does not
\* hold gives the empty mapping.
C18_SubtableReadsInside ==
    (pureIn.fn = "cmap" /\ pureOut.done) =>
        /\ ~pureOut.fault
        /\ ~pureOut.oob
        /\ (FarOffset(pureIn.data) \/ NearOffset(pureIn.data) + 6 > Len(pureIn.data))
             => /\ pureOut.ok
                /\ DOMAIN pureOut.table.glyphMapping = {}

=============================================================================
